---- MODULE Spec2Model ----
(***************************************************************************)
(* The Gibbs sampling loop of hmsc (GibbsSampler.sampling_routine), the    *)
(* latent-response augmentor (updateZ, calculate_z_probit) and the         *)
(* latent-factor sampler (updateEta).                                      *)
(*                                                                         *)
(* Tensors are modelled by their provenance and shape: a value is the      *)
(* stamp [it, d] of the iteration that produced it and of the random draw  *)
(* it was produced from, per-level arrays also carry their factor count    *)
(* nf.  The probit step is modelled entry by entry on integers.            *)
(***************************************************************************)
EXTENDS Integers, Sequences, FiniteSets, TLC

VARIABLES cfg, self, paramsInput, pc, n, params, acc, rng, log, result, run, prev, sweep, pz

vars == <<cfg, self, paramsInput, pc, n, params, acc, rng, log, result, run, prev, sweep, pz>>

loopVars == <<cfg, self, paramsInput, pc, n, params, acc, rng, log, result, run, prev>>

-----------------------------------------------------------------------------
(* Bounds of the model *)

MaxSamples == 2

MaxBurnIn == 1

MaxThin == 2

NR == 2

MaxNf == 1

NY == 2

(* rng_seed=None, the default of sampling_routine *)
None == -1

(* INFTY of calculate_z_probit *)
INFTY == 1000

Levels == 0 .. (NR - 1)

(* the entries of one column of Y *)
Entries == 1 .. NY

VerboseChoices == {1, 2}

SeedChoices == {None, 1}

Libraries == {"tfd", "tf", "scipy"}

-----------------------------------------------------------------------------
(* Values *)

(* the identity of one random draw: the stream it comes from and its place *)
DrawId(g) == <<g.seed, g.epoch, g.pos>>

Advance(g) == [g EXCEPT !.pos = @ + 1]

NoDraw == <<None, 0, -1>>

(* a value handed in by the caller *)
InputVal == [it |-> -1, d |-> NoDraw]

(* a value drawn in iteration i from the stream g *)
Fresh(i, g) == [it |-> i, d |-> DrawId(g)]

(* a per-level list redrawn in iteration i, each array keeping its shape *)
FreshLevels(old, i, g) == [r \in Levels |-> [nf |-> old[r].nf, it |-> i, d |-> DrawId(g)]]

InputLevels(rL) == [r \in Levels |-> [nf |-> IF rL[r].nfMax < 1 THEN rL[r].nfMax ELSE IF rL[r].nfMin > 1 THEN rL[r].nfMin ELSE 1, it |-> -1, d |-> NoDraw]]

(* the keys of the two dictionaries the sampler is constructed with *)
DimKeys == {"ns", "nr", "nc", "ncsel", "ncRRR", "ncNRRR", "ncORRR", "np", "ny"}

DataKeys == {"Y", "X", "Pi", "distr"}

ParamKeys == {"Z", "Beta", "Lambda", "BetaSel", "Xeff", "Gamma", "iV", "rhoInd", "Psi", "Delta", "Eta", "AlphaInd", "sigma"}

RRRKeys == {"wRRR", "PsiRRR", "DeltaRRR"}

TrackedKeys == {"Beta", "BetaSel", "Gamma", "iV", "rhoInd", "sigma", "Lambda", "Psi", "Delta", "Eta", "AlphaInd"} \cup RRRKeys

(* one random level's hyperparameters, rLHyperparams[r] *)
LevelPar(sDim, method, nfMin, nfMax) == [sDim |-> sDim, spatialMethod |-> method, xDim |-> 0, nfMin |-> nfMin, nfMax |-> nfMax]

-----------------------------------------------------------------------------
(* Configuration read by sampling_routine *)

num_samples == cfg.num_samples

sample_burnin == cfg.sample_burnin

sample_thining == cfg.sample_thining

verbose == cfg.verbose

ncRRR == self.modelDims.ncRRR

ncsel == self.modelDims.ncsel

(* the step count with the thinning factor lost *)
StepNumUnthinned == sample_burnin + num_samples

(* step_num = sample_burnin + num_samples * sample_thining *)
StepNum == sample_burnin + num_samples * sample_thining

(* tf.cast(x, tf.int32) of the quotient a / b: truncation toward zero *)
CastInt32(a, b) == IF a >= 0 THEN a \div b ELSE -((-a) \div b)

(* samInd = tf.cast((n - sample_burnin + 1) / sample_thining - 1, tf.int32) *)
SamInd(i) == CastInt32((i - sample_burnin + 1) - sample_thining, sample_thining)

(* the save test taken one iteration early *)
IsSaveIterationEarly(i) == (i >= sample_burnin) /\ ((i - sample_burnin) % sample_thining = 0)

(* (n >= sample_burnin) & ((n - sample_burnin + 1) % sample_thining == 0) *)
IsSaveIteration(i) == (i >= sample_burnin) /\ ((i - sample_burnin + 1) % sample_thining = 0)

(* (n + 1) % verbose == 0 *)
IsReportIteration(i) == (i + 1) % verbose = 0

(* the loop body with the Eta and AlphaInd updates exchanged *)
AfterExchanged(s) ==
    CASE s = "Z" -> "BetaLambda"
      [] s = "BetaLambda" -> IF ncRRR > 0 THEN "wRRR" ELSE IF ncsel > 0 THEN "BetaSel" ELSE "GammaV"
      [] s = "wRRR" -> "wRRRPriors"
      [] s = "wRRRPriors" -> IF ncsel > 0 THEN "BetaSel" ELSE "GammaV"
      [] s = "BetaSel" -> "GammaV"
      [] s = "GammaV" -> "RhoInd"
      [] s = "RhoInd" -> "LambdaPriors"
      [] s = "LambdaPriors" -> "Alpha"
      [] s = "Alpha" -> "Eta"
      [] s = "Eta" -> "Sigma"
      [] s = "Sigma" -> IF n < sample_burnin THEN "Nf" ELSE "report"
      [] s = "Nf" -> "report"
      [] s = "report" -> "save"
      [] OTHER -> "head"

(* the order of the statements of the loop body *)
After(s) ==
    CASE s = "Z" -> "BetaLambda"
      [] s = "BetaLambda" -> IF ncRRR > 0 THEN "wRRR" ELSE IF ncsel > 0 THEN "BetaSel" ELSE "GammaV"
      [] s = "wRRR" -> "wRRRPriors"
      [] s = "wRRRPriors" -> IF ncsel > 0 THEN "BetaSel" ELSE "GammaV"
      [] s = "BetaSel" -> "GammaV"
      [] s = "GammaV" -> "RhoInd"
      [] s = "RhoInd" -> "LambdaPriors"
      [] s = "LambdaPriors" -> "Eta"
      [] s = "Eta" -> "Alpha"
      [] s = "Alpha" -> "Sigma"
      [] s = "Sigma" -> IF n < sample_burnin THEN "Nf" ELSE "report"
      [] s = "Nf" -> "report"
      [] s = "report" -> "save"
      [] OTHER -> "head"

UpdateSteps == {"Z", "BetaLambda", "wRRR", "wRRRPriors", "BetaSel", "GammaV", "RhoInd", "LambdaPriors", "Eta", "Alpha", "Sigma", "Nf"}

(* params[k] = v *)
Assign(p, k, v) == [p EXCEPT ![k] = v, !.keys = @ \cup {k}, !.touched = @ \cup {k}]

(* the parameter state an updater is handed: the dictionary itself *)
Handed(p) == p

Logged(s, p) == [log EXCEPT !.calls = Append(@, [step |-> s, n |-> n, saw |-> Handed(p).touched])]

Raised(at, exc) == [kind |-> "exception", exc |-> exc, at |-> at, samples |-> <<>>]

-----------------------------------------------------------------------------
(* updateEta: the sweep over the random levels *)

(* iD = tf.ones_like(Z) * sigma**-2: the weight of every entry, whether
   observed or not *)
SamplerWeight(sigma) == [zero |-> FALSE, sigma |-> [it |-> sigma.it, d |-> sigma.d], marg |-> FALSE]

Stamp(v) == [it |-> v.it, d |-> v.d]

ZeroContribution == [zero |-> TRUE, e |-> InputVal, l |-> InputVal]

(* tf.matmul(tf.gather(Eta, Pi[:,r]), Lambda): a product over an empty inner
   dimension is the zero matrix *)
Contribution(Eta, Lambda) == IF Eta.nf = 0 THEN ZeroContribution ELSE [zero |-> FALSE, e |-> Stamp(Eta), l |-> Stamp(Lambda)]

(* sum([LRanLevelList[rInd] for rInd in np.setdiff1d(np.arange(nr), r)]) *)
SumOthers(LRan, r) == {<<q, LRan[q]>> : q \in {x \in Levels \ {r} : ~LRan[x].zero}}

(* S = Z - LFix - sum(...) *)
Residual(sw, r) == [Z |-> sw.Z, LFix |-> sw.Beta, others |-> SumOthers(sw.LRan, r)]

(* the draw shared by the three samplers: one factorization, one normal draw *)
Drawn(sw, r, alg) == [sw EXCEPT !.EtaNew[r] = [nf |-> sw.Lambda[r].nf, it |-> sw.it, d |-> DrawId(sw.rng)], !.alg[r] = alg, !.S[r] = <<Residual(sw, r)>>, !.rng = Advance(sw.rng), !.nChol = @ + 1]

modelNonSpatial(sw, r) == Drawn(sw, r, "NonSpatial")

modelSpatialFull(sw, r) == Drawn(sw, r, "Full")

modelSpatialNNGP(sw, r) == Drawn(sw, r, "NNGP")

(* LRanLevelList[r] = tf.matmul(tf.gather(EtaListNew[r], Pi[:,r]), Lambda) *)
Refreshed(sw, r) == [sw EXCEPT !.LRan[r] = Contribution(sw.EtaNew[r], sw.Lambda[r])]

(* the loop body without the test of the factor count: every level is drawn *)
EtaLevelUnguarded(sw) ==
    LET out == Refreshed(modelNonSpatial(sw, sw.r), sw.r)
    IN  [out EXCEPT !.r = sw.r + 1, !.phase = "levels"]

(* the body of the loop over the levels, for level sw.r *)
EtaLevel(sw) ==
    LET r == sw.r
        nf == sw.Lambda[r].nf
        rLPar == sw.rL[r]
        out == IF nf > 0
               THEN IF rLPar.sDim > 0
                    THEN IF rLPar.spatialMethod = "NNGP" THEN modelSpatialNNGP(sw, r)
                         ELSE IF rLPar.spatialMethod = "GPP" THEN [sw EXCEPT !.err = "NotImplementedError"]
                         ELSE modelSpatialFull(sw, r)
                    ELSE Refreshed(modelNonSpatial(sw, r), r)
               ELSE [sw EXCEPT !.EtaNew[r] = sw.Eta[r], !.alg[r] = "kept"]
    IN  [out EXCEPT !.r = IF out.err = "" THEN r + 1 ELSE r, !.phase = IF out.err = "" THEN "levels" ELSE "raised"]

(* lines 28-44: the lookups in the three dictionaries and the contribution of
   every level computed from the Eta handed in *)
EtaBegin(p, data, modelDims, rLHyperparams, i, g) ==
    LET err == IF ~({"Z", "Beta", "sigma", "Lambda", "Eta", "Alpha"} \subseteq p.keys) THEN "KeyError"
               ELSE IF ~({"Pi", "X"} \subseteq data.keys) THEN "KeyError"
               ELSE IF ~({"ny", "nr", "np"} \subseteq modelDims.keys) THEN "KeyError"
               ELSE IF \E r \in Levels : p.Eta[r].nf /= p.Lambda[r].nf THEN "InvalidArgumentError"
               ELSE ""
    IN  [phase |-> IF err = "" THEN "levels" ELSE "raised", err |-> err, r |-> 0, it |-> i, rng |-> g, rL |-> rLHyperparams,
         Z |-> Stamp(p.Z), Beta |-> Stamp(p.Beta), iD |-> [e \in Entries |-> SamplerWeight(p.sigma)],
         Lambda |-> p.Lambda, Eta |-> p.Eta, Alpha |-> p.Alpha,
         LRan |-> [r \in Levels |-> Contribution(p.Eta[r], p.Lambda[r])],
         EtaNew |-> p.Eta, alg |-> [r \in Levels |-> ""], S |-> [r \in Levels |-> <<>>], nChol |-> 0, rng0 |-> g]

RECURSIVE EtaSweep(_)
EtaSweep(sw) == IF sw.err /= "" \/ sw.r = NR THEN sw ELSE EtaSweep(EtaLevel(sw))

(* updateEta(params, data, modelDims, rLHyperparams) *)
updateEta(p, data, modelDims, rLHyperparams, i, g) == EtaSweep(EtaBegin(p, data, modelDims, rLHyperparams, i, g))

-----------------------------------------------------------------------------
(* updateZ *)

(* Yo = tfm.logical_not(tfm.is_nan(Y)) *)
Observed(Y) == [e \in Entries |-> ~Y[e].nan]

ZeroWeight == [zero |-> TRUE, sigma |-> InputVal, marg |-> FALSE]

(* iD = tf.cast(Yo, dtype) * sigma**-2, and in the marginalized Poisson
   mode tf.cast(Yo, dtype) * (sigma**2 + omega**-1)**-1 *)
AugmentorWeight(Yo, sigma, poisson_marginalize_z) ==
    [e \in Entries |-> IF Yo[e] THEN [zero |-> FALSE, sigma |-> Stamp(sigma), marg |-> poisson_marginalize_z] ELSE ZeroWeight]

(* the branch of calculate_z_probit that draws the probit columns *)
ProbitBackend(truncated_normal_library) == IF truncated_normal_library \in Libraries THEN truncated_normal_library ELSE "unbound"

updateZ(p, data, rLHyperparams, poisson_preupdate_z, poisson_marginalize_z, truncated_normal_library, i, g) ==
    LET err == IF ~({"Y", "Pi", "distr"} \subseteq data.keys) THEN "KeyError"
               ELSE IF \E r \in Levels : p.Eta[r].nf /= p.Lambda[r].nf THEN "InvalidArgumentError"
               ELSE IF ProbitBackend(truncated_normal_library) = "unbound" THEN "UnboundLocalError"
               ELSE ""
    IN  [err |-> err,
         Z |-> [it |-> i, d |-> DrawId(g), lib |-> ProbitBackend(truncated_normal_library), pre |-> poisson_preupdate_z],
         iD |-> [it |-> i, d |-> DrawId(g), marg |-> poisson_marginalize_z,
                 w |-> AugmentorWeight(Observed(data.Y), p.sigma, poisson_marginalize_z)],
         poisson_omega |-> Fresh(i, g),
         rng |-> Advance(g)]

(* the keyword defaults of updateZ *)
DefaultPreupdate == TRUE

DefaultMarginalize == FALSE

DefaultLibrary == "tf"

(* the backend argument of the updateZ calls of sampling_routine: none is
   passed, the default of updateZ applies *)
LoopLibrary == DefaultLibrary

-----------------------------------------------------------------------------
(* updateNf: the factor counts it may return for each level *)

NfOutcomes(p, rLHyperparams) == {f \in [Levels -> 0 .. MaxNf] : \A r \in Levels :
        /\ f[r] >= rLHyperparams[r].nfMin /\ f[r] <= rLHyperparams[r].nfMax
        /\ f[r] - p.Lambda[r].nf \in {-1, 0, 1}}

(* the factor counts of the Eta list updateNf returns next to a Lambda list of
   the counts f: each Eta[r] resized with Lambda[r], or left as it was *)
NfEtaOutcomes(p, f) == {g \in [Levels -> 0 .. MaxNf] : \A r \in Levels : g[r] \in {f[r], p.Eta[r].nf}}

Resized(old, f, i, g) == [r \in Levels |-> IF f[r] = old[r].nf THEN old[r] ELSE [nf |-> f[r], it |-> i, d |-> DrawId(g)]]

-----------------------------------------------------------------------------
(* sampling_routine *)

EmptyLog == [calls |-> <<>>, iters |-> <<>>, writes |-> <<>>, printed |-> <<>>, retracing |-> FALSE]

NoResult == [kind |-> "none", exc |-> "", at |-> <<-1, "">>, samples |-> <<>>]

(* the fields the save block writes in this configuration *)
WrittenKeys == {f \in TrackedKeys :
        /\ (f = "BetaSel" => ncsel > 0)
        /\ (f = "Eta" => cfg.flag_save_eta)
        /\ (f \in RRRKeys => ncRRR > 0)}

(* the keys of the returned dictionary *)
SampleKeys == {f \in TrackedKeys : f \in RRRKeys => ncRRR > 0}

(* tf.function: the Python body runs when the call is traced, once for each
   signature of an object; a later call of the same signature runs the graph *)
MustTrace == ~self.traced

(* tf.keras.utils.set_random_seed(rng_seed) in the traced body *)
SeededStream == IF cfg.rng_seed /= None THEN [seed |-> cfg.rng_seed, epoch |-> 0, pos |-> 0] ELSE [seed |-> None, epoch |-> run, pos |-> 0]

Call ==
    /\ pc = "idle"
    /\ rng' = IF MustTrace THEN SeededStream ELSE rng
    /\ self' = [self EXCEPT !.traced = TRUE]
    /\ params' = [paramsInput EXCEPT !.touched = {}]
    /\ n' = 0
    /\ log' = [EmptyLog EXCEPT !.retracing = MustTrace]
    /\ pc' = "preZ"
    /\ UNCHANGED <<cfg, paramsInput, acc, result, run, prev, sweep, pz>>

Fail(exc) ==
    /\ pc' = "raised"
    /\ result' = Raised(<<n, pc>>, exc)
    /\ UNCHANGED <<cfg, self, paramsInput, n, params, acc, rng, log, run, prev, sweep, pz>>

(* updateZ before the loop, line 68 *)
PreLoopZ ==
    /\ pc = "preZ"
    /\ LET z == updateZ(Handed(params), self.modelData, self.rLHyperparams, FALSE, FALSE, LoopLibrary, -1, rng)
       IN  IF z.err /= "" THEN Fail(z.err)
           ELSE /\ params' = Assign(Assign(Assign(params, "Z", z.Z), "iD", z.iD), "poisson_omega", z.poisson_omega)
                /\ rng' = z.rng
                /\ pc' = "alloc"
                /\ UNCHANGED <<cfg, self, paramsInput, n, acc, log, result, run, prev, sweep, pz>>

(* the TensorArrays of size num_samples, lines 71-88 *)
Allocate ==
    /\ pc = "alloc"
    /\ acc' = [f \in TrackedKeys |-> [k \in 0 .. (num_samples - 1) |-> <<>>]]
    /\ n' = 0
    /\ pc' = "head"
    /\ UNCHANGED <<cfg, self, paramsInput, params, rng, log, result, run, prev, sweep, pz>>

(* for n in tf.range(step_num) *)
LoopHead ==
    /\ pc = "head"
    /\ IF n < StepNum
       THEN /\ pc' = "Z"
            /\ log' = [log EXCEPT !.iters = Append(@, n), !.calls = <<>>]
            /\ params' = [params EXCEPT !.touched = {}]
       ELSE /\ pc' = "stack"
            /\ UNCHANGED <<log, params>>
    /\ UNCHANGED <<cfg, self, paramsInput, n, acc, rng, result, run, prev, sweep, pz>>

StepZ ==
    /\ pc = "Z"
    /\ LET z == updateZ(Handed(params), self.modelData, self.rLHyperparams, DefaultPreupdate, DefaultMarginalize, LoopLibrary, n, rng)
       IN  IF z.err /= "" THEN Fail(z.err)
           ELSE /\ params' = Assign(Assign(Assign(params, "Z", z.Z), "iD", z.iD), "poisson_omega", z.poisson_omega)
                /\ rng' = z.rng
                /\ log' = Logged("Z", params)
                /\ pc' = After("Z")
                /\ UNCHANGED <<cfg, self, paramsInput, n, acc, result, run, prev, sweep, pz>>

(* a collaborator's call: it draws, and the loop assigns what it returns *)
Collaborate(s, p) ==
    /\ pc = s
    /\ params' = p
    /\ rng' = Advance(rng)
    /\ log' = Logged(s, params)
    /\ pc' = After(s)
    /\ UNCHANGED <<cfg, self, paramsInput, n, acc, result, run, prev, sweep, pz>>

StepBetaLambda == Collaborate("BetaLambda", Assign(Assign(params, "Beta", Fresh(n, rng)), "Lambda", FreshLevels(params.Lambda, n, rng)))

StepwRRR == Collaborate("wRRR", Assign(Assign(params, "wRRR", Fresh(n, rng)), "Xeff", Fresh(n, rng)))

StepwRRRPriors == Collaborate("wRRRPriors", Assign(Assign(params, "PsiRRR", Fresh(n, rng)), "DeltaRRR", Fresh(n, rng)))

StepBetaSel == Collaborate("BetaSel", Assign(Assign(params, "BetaSel", Fresh(n, rng)), "Xeff", Fresh(n, rng)))

StepGammaV == Collaborate("GammaV", Assign(Assign(params, "Gamma", Fresh(n, rng)), "iV", Fresh(n, rng)))

StepRhoInd == Collaborate("RhoInd", Assign(params, "rhoInd", Fresh(n, rng)))

StepLambdaPriors == Collaborate("LambdaPriors", Assign(Assign(params, "Psi", FreshLevels(params.Psi, n, rng)), "Delta", FreshLevels(params.Delta, n, rng)))

(* params["Eta"] = updateEta(params, self.modelDims, self.modelData, self.rLHyperparams) *)
StepEta ==
    /\ pc = "Eta"
    /\ LET sw == updateEta(Handed(params), self.modelDims, self.modelData, self.rLHyperparams, n, rng)
       IN  IF sw.err /= "" THEN Fail(sw.err)
           ELSE /\ params' = Assign(params, "Eta", sw.EtaNew)
                /\ rng' = sw.rng
                /\ log' = Logged("Eta", params)
                /\ pc' = After("Eta")
                /\ sweep' = sw
                /\ UNCHANGED <<cfg, self, paramsInput, n, acc, result, run, prev, pz>>

StepAlpha == Collaborate("Alpha", Assign(params, "AlphaInd", FreshLevels(params.AlphaInd, n, rng)))

StepSigma == Collaborate("Sigma", Assign(params, "sigma", Fresh(n, rng)))

(* updateNf, inside burn-in only *)
StepNf ==
    /\ \E f \in NfOutcomes(Handed(params), self.rLHyperparams) : \E fEta \in NfEtaOutcomes(Handed(params), f) :
          Collaborate("Nf", Assign(Assign(Assign(Assign(Assign(params,
                "Lambda", Resized(params.Lambda, f, n, rng)), "Psi", Resized(params.Psi, f, n, rng)),
                "Delta", Resized(params.Delta, f, n, rng)), "Eta", Resized(params.Eta, fEta, n, rng)),
                "AlphaInd", Resized(params.AlphaInd, f, n, rng)))

(* printFunction(i, iterN, samInd) *)
printFunction(i, iterN, samInd) == [i |-> i, iterN |-> iterN, samInd |-> samInd, text |-> IF samInd >= 0 THEN "saving" ELSE "transient"]

(* lines 145-147 *)
Report ==
    /\ pc = "report"
    /\ log' = IF IsReportIteration(n)
              THEN [Logged("report", params) EXCEPT !.printed = Append(@, printFunction(n, StepNum, SamInd(n)))]
              ELSE log
    /\ pc' = After("report")
    /\ UNCHANGED <<cfg, self, paramsInput, n, params, acc, rng, result, run, prev, sweep, pz>>

(* lines 149-165, and the step of the loop to the next n *)
Save ==
    /\ pc = "save"
    /\ IF IsSaveIteration(n)
       THEN IF SamInd(n) \in 0 .. (num_samples - 1)
            THEN /\ acc' = [f \in TrackedKeys |-> IF f \in WrittenKeys THEN [acc[f] EXCEPT ![SamInd(n)] = Append(@, params[f])] ELSE acc[f]]
                 /\ log' = [Logged("save", params) EXCEPT !.writes = Append(@, <<n, SamInd(n)>>)]
                 /\ n' = n + 1
                 /\ pc' = After("save")
                 /\ UNCHANGED result
            ELSE /\ pc' = "raised"
                 /\ result' = Raised(<<n, pc>>, "OutOfRangeError")
                 /\ UNCHANGED <<acc, log, n>>
       ELSE /\ n' = n + 1
            /\ pc' = After("save")
            /\ UNCHANGED <<acc, log, result>>
    /\ UNCHANGED <<cfg, self, paramsInput, params, rng, run, prev, sweep, pz>>

(* lines 167-184 *)
Stacked == [f \in SampleKeys |-> IF f = "Eta" /\ ~cfg.flag_save_eta THEN <<>> ELSE acc[f]]

Return ==
    /\ pc = "stack"
    /\ result' = [kind |-> "samples", exc |-> "", at |-> <<n, "stack">>, samples |-> Stacked]
    /\ pc' = "returned"
    /\ UNCHANGED <<cfg, self, paramsInput, n, params, acc, rng, log, run, prev, sweep, pz>>

(* a numerical failure inside an update: the exception leaves sampling_routine *)
Raise ==
    /\ pc \in UpdateSteps \cup {"preZ"}
    /\ Fail("NumericalError")

-----------------------------------------------------------------------------
(* The states sampling_routine is called in *)

NonSpatialLevel == LevelPar(0, "None", 1, 1)

AdaptiveLevel == LevelPar(0, "None", 0, MaxNf)

FullLevel == LevelPar(2, "Full", 1, 1)

GPPLevel == LevelPar(2, "GPP", 1, 1)

(* the random-level structures the loop is run with *)
LoopSetups == {[r \in Levels |-> NonSpatialLevel],
               [r \in Levels |-> IF r = 0 THEN AdaptiveLevel ELSE IF r = NR - 1 THEN FullLevel ELSE NonSpatialLevel],
               [r \in Levels |-> IF r = 0 THEN GPPLevel ELSE NonSpatialLevel]}

(* the response column the loop is run with: its first entry is observed, the
   others are missing (NaN) *)
LoopY == [e \in Entries |-> [nan |-> e > 1]]

(* the initial parameter state, built by the caller *)
InitialParams(rL, hasAlpha, rrr) ==
    [keys |-> ParamKeys \cup (IF hasAlpha THEN {"Alpha"} ELSE {}) \cup (IF rrr > 0 THEN RRRKeys ELSE {}),
     touched |-> {},
     Z |-> [it |-> -1, d |-> NoDraw, lib |-> "input", pre |-> FALSE],
     iD |-> [it |-> -1, d |-> NoDraw, marg |-> FALSE],
     poisson_omega |-> InputVal,
     Beta |-> InputVal, BetaSel |-> InputVal, Xeff |-> InputVal, Gamma |-> InputVal, iV |-> InputVal,
     rhoInd |-> InputVal, sigma |-> InputVal, wRRR |-> InputVal, PsiRRR |-> InputVal, DeltaRRR |-> InputVal,
     Lambda |-> InputLevels(rL), Eta |-> InputLevels(rL), Psi |-> InputLevels(rL), Delta |-> InputLevels(rL),
     AlphaInd |-> InputLevels(rL), Alpha |-> InputLevels(rL)]

IdleSweep == [phase |-> "idle"]

IdleProbit == [phase |-> "idle"]

(* GibbsSampler(modelDims, modelData, priorHyperparams, rLHyperparams), and the
   arguments of the first call of sampling_routine *)
InitLoop(libs, seeds, verboses, flags, extensions, dimKeySets, dataKeySets, alphas, setups) ==
    /\ cfg \in [num_samples : 1 .. MaxSamples, sample_burnin : 0 .. MaxBurnIn, sample_thining : 1 .. MaxThin,
                verbose : verboses, truncated_normal_library : libs, flag_save_eta : flags, rng_seed : seeds]
    /\ \E rL \in setups, dk \in dimKeySets, yk \in dataKeySets, rrr \in extensions, sel \in extensions, hasAlpha \in alphas :
          /\ self = [modelDims |-> [keys |-> dk, ncRRR |-> rrr, ncsel |-> sel], modelData |-> [keys |-> yk, Y |-> LoopY],
                     rLHyperparams |-> rL, traced |-> FALSE]
          /\ paramsInput = InitialParams(rL, hasAlpha, rrr)
    /\ pc = "idle"
    /\ n = 0
    /\ params = paramsInput
    /\ acc = [f \in TrackedKeys |-> <<>>]
    /\ rng = [seed |-> None, epoch |-> 0, pos |-> 0]
    /\ log = EmptyLog
    /\ result = NoResult
    /\ run = 1
    /\ prev = <<>>
    /\ sweep = IdleSweep
    /\ pz = IdleProbit

Init == InitLoop({"scipy"}, {None}, VerboseChoices, BOOLEAN, {0, 1}, {DimKeys, DimKeys \cup DataKeys}, {DataKeys, DataKeys \cup DimKeys}, BOOLEAN, LoopSetups)

Next ==
    \/ Call
    \/ PreLoopZ
    \/ Allocate
    \/ LoopHead
    \/ StepZ
    \/ StepBetaLambda
    \/ StepwRRR
    \/ StepwRRRPriors
    \/ StepBetaSel
    \/ StepGammaV
    \/ StepRhoInd
    \/ StepLambdaPriors
    \/ StepEta
    \/ StepAlpha
    \/ StepSigma
    \/ StepNf
    \/ Report
    \/ Save
    \/ Return
    \/ Raise

Spec == Init /\ [][Next]_vars

-----------------------------------------------------------------------------
(* Claims about the accumulator and the loop *)

RawIteration(k) == sample_burnin + (k + 1) * sample_thining - 1

PerLevelKeys == {"Lambda", "Psi", "Delta", "AlphaInd"}

(* the stored value carries the stamp of iteration i in every part that the
   loop redraws in every iteration *)
HeldAtEndOf(f, v, i) ==
    IF f \in PerLevelKeys THEN \A r \in Levels : v[r].it = i
    ELSE IF f = "Eta" THEN \A r \in Levels : v[r].nf > 0 => v[r].it = i
    ELSE v.it = i

(* C1: exactly num_samples samples are retained by a completed run, every slot
   k of 0..num_samples-1 is written exactly once, with the parameter state of
   the end of raw iteration sample_burnin + (k+1)*sample_thining - 1, and no
   slot is written in an iteration before sample_burnin or off a thinning
   boundary. *)
AccumulatorBookkeeping ==
    /\ \A j \in 1 .. Len(log.writes) :
          LET i == log.writes[j][1]
              k == log.writes[j][2]
          IN  /\ k \in 0 .. (num_samples - 1)
              /\ i = RawIteration(k)
              /\ i >= sample_burnin
              /\ (i - sample_burnin + 1) % sample_thining = 0
              /\ \A m \in 1 .. Len(log.writes) : m /= j => log.writes[m][2] /= k
    /\ pc \in UpdateSteps \cup {"head", "report", "save", "stack", "returned"} =>
          \A f \in TrackedKeys : \A k \in 0 .. (num_samples - 1) :
              /\ Len(acc[f][k]) = IF f \in WrittenKeys /\ (\E j \in 1 .. Len(log.writes) : log.writes[j][2] = k) THEN 1 ELSE 0
              /\ Len(acc[f][k]) = 1 => HeldAtEndOf(f, acc[f][k][1], RawIteration(k))
    /\ pc = "returned" =>
          /\ Len(log.writes) = num_samples
          /\ \A f \in WrittenKeys : \A k \in 0 .. (num_samples - 1) : Len(result.samples[f][k]) = 1

(* a run with burn-in and thinning gaps has completed and filled its slots *)
AccumulatorBookkeepingWitness ==
    /\ pc = "returned"
    /\ sample_burnin >= 1 /\ sample_thining >= 2 /\ num_samples >= 2
    /\ Len(log.writes) = num_samples
    /\ Len(acc["Beta"][num_samples - 1]) = 1

(* C2: a run in which no step fails executes the iterations 0, 1, ...,
   step_num - 1, once each and in increasing order, then returns the stacked
   samples. *)
ExactIterationCount ==
    /\ \A j \in 1 .. Len(log.iters) : log.iters[j] = j - 1
    /\ Len(log.iters) <= sample_burnin + num_samples * sample_thining
    /\ pc = "returned" =>
          /\ Len(log.iters) = sample_burnin + num_samples * sample_thining
          /\ result.kind = "samples"
          /\ \A f \in WrittenKeys : result.samples[f] = acc[f]

ExactIterationCountWitness ==
    /\ pc = "returned"
    /\ Len(log.iters) = 5
    /\ result.kind = "samples"

(* the updates of iteration i, in the order of the claim *)
ExpectedUpdates(i) ==
    <<"Z", "BetaLambda">>
    \o (IF ncRRR > 0 THEN <<"wRRR", "wRRRPriors">> ELSE <<>>)
    \o (IF ncsel > 0 THEN <<"BetaSel">> ELSE <<>>)
    \o <<"GammaV", "RhoInd", "LambdaPriors", "Eta", "Alpha", "Sigma">>
    \o (IF i < sample_burnin THEN <<"Nf">> ELSE <<>>)

(* the fields of the parameter state each update assigns *)
Outputs(s) ==
    CASE s = "Z" -> {"Z", "iD", "poisson_omega"}
      [] s = "BetaLambda" -> {"Beta", "Lambda"}
      [] s = "wRRR" -> {"wRRR", "Xeff"}
      [] s = "wRRRPriors" -> {"PsiRRR", "DeltaRRR"}
      [] s = "BetaSel" -> {"BetaSel", "Xeff"}
      [] s = "GammaV" -> {"Gamma", "iV"}
      [] s = "RhoInd" -> {"rhoInd"}
      [] s = "LambdaPriors" -> {"Psi", "Delta"}
      [] s = "Eta" -> {"Eta"}
      [] s = "Alpha" -> {"AlphaInd"}
      [] s = "Sigma" -> {"sigma"}
      [] s = "Nf" -> {"Lambda", "Psi", "Delta", "Eta", "AlphaInd"}
      [] OTHER -> {}

(* C3: within an iteration the updates run at most once each, in the fixed
   order Z, Beta/Lambda, wRRR and its priors (only if ncRRR > 0), BetaSel (only
   if ncsel > 0), Gamma/iV, rhoInd, Psi/Delta, Eta, AlphaInd, sigma, and the
   factor-count adaptation exactly when n < sample_burnin; each is handed the
   state already assigned by all the earlier ones; the report and the save
   come after all of them. *)
FixedUpdateOrder ==
    LET c == log.calls
        i == IF Len(c) > 0 THEN c[1].n ELSE n
        exp == ExpectedUpdates(i)
        U == Len(exp)
    IN  /\ Len(c) <= U + 2
        /\ \A j \in 1 .. Len(c) :
              /\ c[j].n = i
              /\ j <= U => c[j].step = exp[j]
              /\ j = U + 1 => c[j].step \in {"report", "save"}
              /\ j = U + 2 => c[j].step = "save" /\ c[U + 1].step = "report"
              /\ c[j].saw = UNION {Outputs(c[m].step) : m \in 1 .. (j - 1)}
        /\ pc \in UpdateSteps => Len(c) < U /\ pc = exp[Len(c) + 1]
        /\ pc \in {"report", "save"} => Len(c) >= U

(* every conditional update has run in one burn-in iteration, and the save
   block is reached after them *)
FixedUpdateOrderWitness ==
    /\ pc = "save"
    /\ ncRRR > 0 /\ ncsel > 0 /\ n < sample_burnin
    /\ Len(log.calls) >= 13
    /\ log.calls[12].step = "Nf"

(* C4: if an update fails in iteration n the loop runs nothing further, and
   the samples retained before n are what the caller receives. *)
AbortKeepsSamples ==
    (pc = "raised" /\ Len(log.writes) > 0) =>
        /\ result.kind = "samples"
        /\ \A j \in 1 .. Len(log.writes) : \A f \in WrittenKeys :
              result.samples[f][log.writes[j][2]] = acc[f][log.writes[j][2]]

-----------------------------------------------------------------------------
(* A second call of sampling_routine with the same arguments *)

(* the caller keeps the samples of the first run and calls again, on the same
   GibbsSampler or on a newly constructed one *)
CallAgain ==
    /\ pc = "returned"
    /\ run = 1
    /\ \E sameObject \in BOOLEAN : self' = [self EXCEPT !.traced = IF sameObject THEN @ ELSE FALSE]
    /\ prev' = result.samples
    /\ run' = 2
    /\ pc' = "idle"
    /\ result' = NoResult
    /\ params' = paramsInput
    /\ acc' = [f \in TrackedKeys |-> <<>>]
    /\ n' = 0
    /\ UNCHANGED <<cfg, paramsInput, rng, log, sweep, pz>>

(* level structures whose factor counts are fixed (nfMin = nfMax): what the
   adaptation returns is then the same in both runs *)
RepeatSetups == {[r \in Levels |-> NonSpatialLevel], [r \in Levels |-> IF r = NR - 1 THEN FullLevel ELSE NonSpatialLevel]}

InitRepeat == InitLoop(Libraries, SeedChoices, {1}, {TRUE}, {0, 1}, {DimKeys \cup DataKeys}, {DataKeys \cup DimKeys}, {TRUE}, RepeatSetups)

NextRepeat == Next \/ CallAgain

SpecRepeat == InitRepeat /\ [][NextRepeat]_vars

(* C5: two runs from the same initial state and configuration with the same
   non-null rng_seed return the same samples in every slot of every field,
   also when the second run is a second call on the same sampler object. *)
SeededRunsAgree ==
    (pc = "returned" /\ run = 2 /\ cfg.rng_seed /= None) => result.samples = prev

(* seeded runs on two separately constructed samplers do agree *)
SeededRunsAgreeWhenRetraced ==
    (pc = "returned" /\ run = 2 /\ cfg.rng_seed /= None /\ log.retracing) => result.samples = prev

(* C6: the backend named by truncated_normal_library is the one that draws the
   probit columns in the call before the loop and in every iteration. *)
ConfiguredBackendUsed ==
    pc \in UpdateSteps \cup {"alloc", "head", "report", "save", "stack", "returned"} =>
        params.Z.lib = cfg.truncated_normal_library

-----------------------------------------------------------------------------
(* updateEta called on its own, level by level *)

(* the loop is not running *)
LoopOff ==
    /\ cfg = [num_samples |-> 1, sample_burnin |-> 0, sample_thining |-> 1, verbose |-> 1,
              truncated_normal_library |-> "scipy", flag_save_eta |-> TRUE, rng_seed |-> None]
    /\ self = [modelDims |-> [keys |-> DimKeys, ncRRR |-> 0, ncsel |-> 0], modelData |-> [keys |-> DataKeys, Y |-> LoopY],
               rLHyperparams |-> [r \in Levels |-> NonSpatialLevel], traced |-> FALSE]
    /\ paramsInput = InitialParams(self.rLHyperparams, TRUE, 0)
    /\ pc = "off"
    /\ n = 0
    /\ params = paramsInput
    /\ acc = [f \in TrackedKeys |-> <<>>]
    /\ rng = [seed |-> None, epoch |-> 0, pos |-> 0]
    /\ log = EmptyLog
    /\ result = NoResult
    /\ run = 1
    /\ prev = <<>>

(* a level is spatial exactly when it names a spatial method *)
LevelKinds == {LevelPar(0, "None", 0, MaxNf), LevelPar(2, "Full", 0, MaxNf), LevelPar(2, "NNGP", 0, MaxNf), LevelPar(2, "GPP", 0, MaxNf)}

(* a parameter state with the factor counts f *)
ParamsWith(f, hasAlpha) ==
    LET lv == [r \in Levels |-> [nf |-> f[r], it |-> -1, d |-> NoDraw]]
    IN  [InitialParams([r \in Levels |-> NonSpatialLevel], hasAlpha, 0) EXCEPT !.Lambda = lv, !.Eta = lv, !.Psi = lv, !.Delta = lv, !.AlphaInd = lv, !.Alpha = lv]

InitEta ==
    /\ LoopOff
    /\ pz = IdleProbit
    /\ \E rL \in [Levels -> LevelKinds], f \in [Levels -> 0 .. MaxNf], hasAlpha \in BOOLEAN :
          sweep = [phase |-> "args", p |-> ParamsWith(f, hasAlpha), data |-> [keys |-> DataKeys],
                   modelDims |-> [keys |-> DimKeys], rL |-> rL]

EtaCall ==
    /\ sweep.phase = "args"
    /\ sweep' = EtaBegin(sweep.p, sweep.data, sweep.modelDims, sweep.rL, 0, rng)
    /\ UNCHANGED <<loopVars, pz>>

EtaStep ==
    /\ sweep.phase = "levels"
    /\ sweep.r < NR
    /\ sweep' = EtaLevel(sweep)
    /\ UNCHANGED <<loopVars, pz>>

(* tfla.cholesky of a matrix that is not positive definite *)
EtaCholeskyFails ==
    /\ sweep.phase = "levels"
    /\ sweep.r < NR
    /\ sweep.Lambda[sweep.r].nf > 0
    /\ sweep' = [sweep EXCEPT !.phase = "raised", !.err = "InvalidArgumentError"]
    /\ UNCHANGED <<loopVars, pz>>

(* return EtaListNew *)
EtaReturn ==
    /\ sweep.phase = "levels"
    /\ sweep.r = NR
    /\ sweep' = [sweep EXCEPT !.phase = "returned"]
    /\ UNCHANGED <<loopVars, pz>>

NextEta == EtaCall \/ EtaStep \/ EtaCholeskyFails \/ EtaReturn

SpecEta == InitEta /\ [][NextEta]_vars

(* the levels the sweep has gone through without raising *)
Swept == IF sweep.phase \in {"levels", "returned"} THEN {r \in Levels : r < sweep.r} ELSE {}

(* C8: a level tagged with the predictive-process method makes updateEta
   fail whenever it is processed, whatever its factor count and spatial
   dimension: the sweep never goes past such a level. *)
GPPAlwaysFails ==
    \A r \in Swept : sweep.rL[r].spatialMethod /= "GPP"

(* C9: a level whose Lambda has no rows gets its input Eta back, draws
   nothing and factorizes nothing, and enters the residual of no other level. *)
ZeroFactorLevelIsNoOp ==
    /\ \A r \in Swept : sweep.Lambda[r].nf = 0 =>
          /\ sweep.EtaNew[r] = sweep.Eta[r]
          /\ sweep.alg[r] = "kept"
          /\ sweep.S[r] = <<>>
          /\ \A q \in Swept : sweep.Lambda[q].nf > 0 => \A t \in sweep.S[q][1].others : t[1] /= r
    /\ sweep.phase \in {"levels", "returned"} =>
          /\ sweep.nChol = Cardinality({r \in Swept : sweep.Lambda[r].nf > 0})
          /\ sweep.rng.pos - sweep.rng0.pos = Cardinality({r \in Swept : sweep.Lambda[r].nf > 0})

(* a sweep has returned in which a zero-factor level stood before a level
   that was drawn *)
ZeroFactorLevelIsNoOpWitness ==
    /\ sweep.phase = "returned"
    /\ sweep.Lambda[0].nf = 0
    /\ sweep.Lambda[NR - 1].nf > 0
    /\ sweep.alg[NR - 1] /= "kept"
    /\ sweep.nChol >= 1

(* C10: the residual of level r subtracts, for every earlier level, the
   contribution of the Eta drawn in this sweep and, for every later level, the
   contribution of the Eta handed in, whatever the regime of the earlier
   levels. *)
ResidualUsesLatestDraws ==
    \A r \in Swept : sweep.Lambda[r].nf > 0 =>
        sweep.S[r][1].others =
            {<<q, Contribution(IF q < r THEN sweep.EtaNew[q] ELSE sweep.Eta[q], sweep.Lambda[q])>> :
                q \in {x \in Levels \ {r} : sweep.Lambda[x].nf > 0}}

-----------------------------------------------------------------------------
(* calculate_z_probit, for one entry (i,j) of a probit column *)

(* an entry of Y: 0, 1 or missing (nan) *)
YValues == {[nan |-> FALSE, v |-> 0], [nan |-> FALSE, v |-> 1], [nan |-> TRUE, v |-> 0]}

(* Y == c is false of a nan *)
Equals(Y, c) == ~Y.nan /\ Y.v = c

(* the values of the linear predictor, of sigma and of Z the model draws from *)
LPChoices == {-2 * INFTY, -1, 0, 1, 2 * INFTY}

SigmaChoices == {1, 2}

ZGrid == {-2 * INFTY, -INFTY - 1, -INFTY, -1, 0, 1, INFTY, INFTY + 1, 2 * INFTY}

(* low = tf.where(tfm.logical_or(Y == 0, Ym), tf.cast(-INFTY, dtype), tf.zeros_like(Y)) *)
ProbitLow(Y, Ym) == IF Equals(Y, 0) \/ Ym THEN -INFTY ELSE 0

(* high = tf.where(tfm.logical_or(Y == 1, Ym), tf.cast(INFTY, dtype), tf.zeros_like(Y)) *)
ProbitHigh(Y, Ym) == IF Equals(Y, 1) \/ Ym THEN INFTY ELSE 0

(* a, b = (low - loc) / scale, (high - loc) / scale, as fractions *)
Standardized(x, loc, scale) == [num |-> x - loc, den |-> scale]

(* the values a backend may return: the law is continuous on the interval it
   is handed, the end points have no mass *)
TruncatedNormalDraws(loc, scale, low, high) == {z \in ZGrid : low < z /\ z < high}

(* truncnorm.rvs(a, b, loc, scale): loc + scale * x with a < x < b *)
TruncnormRvs(a, b, loc, scale) == {z \in ZGrid : a.num * scale < (z - loc) * a.den /\ (z - loc) * b.den < b.num * scale}

(* the interval a backend was handed, in the units of Z *)
Admissible(z) ==
    IF pz.lib = "scipy"
    THEN pz.a.num * pz.sigma <= (z - pz.LP) * pz.a.den /\ (z - pz.LP) * pz.b.den <= pz.b.num * pz.sigma
    ELSE pz.low <= z /\ z <= pz.high

InitProbit ==
    /\ LoopOff
    /\ sweep = IdleSweep
    /\ \E lib \in Libraries, Y \in YValues, LP \in LPChoices, sigma \in SigmaChoices :
          pz = [phase |-> "args", lib |-> lib, Y |-> Y, LP |-> LP, sigma |-> sigma]

(* lines 102-109 *)
ProbitBounds ==
    /\ pz.phase = "args"
    /\ LET Yo == ~pz.Y.nan
           Ym == ~Yo
       IN  pz' = [phase |-> "bounded", lib |-> pz.lib, Y |-> pz.Y, LP |-> pz.LP, sigma |-> pz.sigma, Yo |-> Yo,
                  low |-> ProbitLow(pz.Y, Ym), high |-> ProbitHigh(pz.Y, Ym)]
    /\ UNCHANGED <<loopVars, sweep>>

(* lines 111-128 *)
ProbitSample ==
    /\ pz.phase = "bounded"
    /\ LET a == Standardized(pz.low, pz.LP, pz.sigma)
           b == Standardized(pz.high, pz.LP, pz.sigma)
           draws == IF pz.lib = "scipy" THEN TruncnormRvs(a, b, pz.LP, pz.sigma)
                    ELSE TruncatedNormalDraws(pz.LP, pz.sigma, pz.low, pz.high)
       IN  \E z \in draws :
              pz' = [phase |-> "drawn", lib |-> pz.lib, Y |-> pz.Y, LP |-> pz.LP, sigma |-> pz.sigma, Yo |-> pz.Yo,
                     low |-> pz.low, high |-> pz.high, a |-> a, b |-> b, Z |-> z, iD |-> [observed |-> pz.Yo, sigma |-> pz.sigma]]
    /\ UNCHANGED <<loopVars, sweep>>

NextProbit == ProbitBounds \/ ProbitSample

SpecProbit == InitProbit /\ [][NextProbit]_vars

(* C7: for each backend, the interval handed to it is (-inf, 0] when Y = 0,
   [0, +inf) when Y = 1 and unbounded when Y is missing, so that Z < 0 when
   Y = 0 and Z > 0 when Y = 1, whatever the linear predictor and sigma. *)
ProbitIntervalUnbounded ==
    pz.phase = "drawn" =>
        /\ \A z \in ZGrid : Admissible(z) <=> \/ pz.Y.nan
                                              \/ Equals(pz.Y, 0) /\ z <= 0
                                              \/ Equals(pz.Y, 1) /\ z >= 0
        /\ Equals(pz.Y, 0) => pz.Z < 0
        /\ Equals(pz.Y, 1) => pz.Z > 0

(* the sign of Z and the bound INFTY, as the code has them *)
ProbitSignWithinINFTY ==
    pz.phase = "drawn" =>
        /\ Equals(pz.Y, 0) => pz.Z < 0 /\ pz.Z > -INFTY
        /\ Equals(pz.Y, 1) => pz.Z > 0 /\ pz.Z < INFTY
        /\ pz.Y.nan => pz.Z > -INFTY /\ pz.Z < INFTY

-----------------------------------------------------------------------------
(* The latent-factor step inside the loop *)

(* the sweep of step 8 of the current iteration has been made *)
EtaStepDone == pc \in {"Alpha", "Sigma", "Nf", "report", "save"} /\ sweep.phase = "levels" /\ sweep.it = n

(* C11: the sufficient statistics of step 8 weight every entry by the iD the
   augmentor returned in the same iteration: a missing entry weighs nothing,
   an observed entry weighs what updateZ gave it. *)
StatisticsUseAugmentorPrecision ==
    EtaStepDone => \A e \in Entries : sweep.iD[e] = params.iD.w[e]

(* the observed entries are weighted as the augmentor weighted them *)
ObservedEntriesWeightedAlike ==
    EtaStepDone => \A e \in Entries : ~self.modelData.Y[e].nan => sweep.iD[e] = params.iD.w[e]

(* a sweep inside the loop over a column with a missing entry *)
MissingEntryInSweep ==
    EtaStepDone /\ \E e \in Entries : self.modelData.Y[e].nan /\ params.iD.w[e].zero

-----------------------------------------------------------------------------
(* The progress report *)

(* C12: the slot handed to printFunction is the slot written in the same
   iteration when the iteration is a save boundary, and is negative (the
   report says "transient") in every other iteration: inside burn-in and in
   every thinning gap. *)
ReportedSlotOrTransient ==
    \A k \in 1 .. Len(log.printed) :
        LET r == log.printed[k]
        IN  IF IsSaveIteration(r.i)
            THEN /\ r.samInd >= 0
                 /\ r.text = "saving"
                 /\ \A w \in 1 .. Len(log.writes) : log.writes[w][1] = r.i => log.writes[w][2] = r.samInd
            ELSE r.samInd < 0 /\ r.text = "transient"

(* the report of a save boundary names the slot written there, and a report
   inside burn-in is transient *)
ReportedSlotAtBoundaryAndBurnIn ==
    \A k \in 1 .. Len(log.printed) :
        LET r == log.printed[k]
        IN  /\ IsSaveIteration(r.i) =>
                /\ r.samInd >= 0
                /\ \A w \in 1 .. Len(log.writes) : log.writes[w][1] = r.i => log.writes[w][2] = r.samInd
            /\ r.i < sample_burnin => r.samInd < 0 /\ r.text = "transient"

(* a report has been made in a thinning gap after burn-in *)
ReportInThinningGap ==
    \E k \in 1 .. Len(log.printed) : log.printed[k].i >= sample_burnin /\ ~IsSaveIteration(log.printed[k].i)

-----------------------------------------------------------------------------
(* The factor counts after the adaptation *)

ShapesDisagree == \E r \in Levels : params.Lambda[r].nf /= params.Eta[r].nf

(* C13: when updateNf returns a Lambda[r] and an Eta[r] of different factor
   counts the loop raises in that iteration right after the adaptation, so
   that Lambda[r] and Eta[r] agree in every state reached without an error
   and a run that fails over the shapes has failed at the adaptation step. *)
ShapesCheckedAtAdaptation ==
    /\ result.kind /= "exception" => ~ShapesDisagree
    /\ result.kind = "exception" /\ ShapesDisagree => result.at[2] = "Nf"

(* disagreeing shapes live from the adaptation to the augmentor call of the
   next iteration, where the product of Eta and Lambda fails *)
ShapesDisagreeUntilAugmentor ==
    ShapesDisagree =>
        /\ pc \in {"report", "save", "head", "Z", "raised"}
        /\ pc = "raised" => result.at[2] = "Z" /\ result.exc \in {"InvalidArgumentError", "NumericalError"}
        /\ Len(log.writes) = 0

(* the progress report has been made over disagreeing shapes *)
ReportOverDisagreeingShapes ==
    ShapesDisagree /\ pc = "save" /\ IsReportIteration(n)

-----------------------------------------------------------------------------
(* The call of step 8 *)

(* the sampler was constructed with the dimensions in modelDims and the data
   in modelData *)
WellFormed == self.modelDims.keys = DimKeys /\ self.modelData.keys = DataKeys

(* C14: the call of step 8 hands updateEta the model data as data and the
   model dimensions as modelDims, and the spatial range index updateEta reads
   is the one the loop maintains: on a well-formed run no lookup of step 8
   fails, and the index read is the current AlphaInd. *)
StepEightBindsItsArguments ==
    /\ WellFormed => ~(result.kind = "exception" /\ result.at[2] = "Eta" /\ result.exc = "KeyError")
    /\ EtaStepDone => sweep.Alpha = params.AlphaInd

(* on a well-formed run step 8 never completes: the first call raises *)
WellFormedRunStopsAtStepEight ==
    WellFormed /\ pc /= "idle" =>
        /\ pc \notin {"Alpha", "Sigma", "Nf", "report", "save", "stack", "returned"}
        /\ Len(log.iters) <= 1
        /\ result.kind = "exception" /\ result.at[2] = "Eta" => result.exc \in {"KeyError", "NumericalError"}

(* step 8 completes, in an iteration after the first, only when each
   dictionary also carries the other's keys and the parameter state carries
   an "Alpha" of its own, which no step of the loop assigns *)
StepEightReadsCallersAlpha ==
    EtaStepDone /\ n > 0 =>
        /\ {"Pi", "X"} \subseteq self.modelDims.keys
        /\ {"ny", "nr", "np"} \subseteq self.modelData.keys
        /\ sweep.Alpha = paramsInput.Alpha
        /\ sweep.Alpha /= params.AlphaInd

====
